---- MODULE Spec2Model ----
(***************************************************************************)
(* The slider interaction controller of react-md,                          *)
(* packages/form/src/slider/useSliderControls.ts, as a state machine.      *)
(*                                                                         *)
(* The hook runs under React 17 (packages/react-md/package.json pins       *)
(* react ^17.0.1), legacy root:                                            *)
(*   - state updates made inside a React event handler (onMouseDown,       *)
(*     onTouchStart, onKeyDown) are batched into one render at the end of  *)
(*     the handler;                                                        *)
(*   - state updates made inside a native window listener or a timer       *)
(*     callback render synchronously, one render per changing setState;    *)
(*   - the bodies and the cleanups of useEffect are passive effects: they  *)
(*     are scheduled by the commit and run later, as a task of their own,  *)
(*     but always before the next render and before the next React         *)
(*     discrete event is dispatched; this also holds for the cleanups of   *)
(*     an unmount.                                                         *)
(* One action is one task of the browser's event loop.                     *)
(***************************************************************************)
EXTENDS Integers, Sequences, FiniteSets, TLC

VARIABLES
    range,          \* isRangeSlider(controls): fixed at construction
    vertical,       \* prop
    isRtl,          \* useDir().dir === "rtl"
    disabled,       \* prop, may change between renders
    mounted,        \* the component is mounted
    trackRef,       \* trackRef.current is an element
    thumb1Ref,      \* thumb1Ref.current is an element
    thumb2Ref,      \* thumb2Ref.current is an element
    dragging,       \* useState(false)
    draggingIndex,  \* useState<SliderThumbIndex>(null)
    draggingBy,     \* useState<SliderDraggingBy>(null)
    value,          \* the value model: <<v>> or <<thumb1Value, thumb2Value>>
    focus,          \* the thumb that holds input focus (NULL: none)
    listeners,      \* the window's listeners, per event type
    net,            \* addEventListener calls minus removeEventListener calls
    lEff,           \* cleanup of the listener effect's last run
    tEff,           \* cleanup of the timer effect's last run (its timer id)
    pendL,          \* the listener effect is scheduled (passive, not yet run)
    pendT,          \* the timer effect is scheduled (passive, not yet run)
    timers,         \* the outstanding timeouts: [id, stale]
    fired,          \* a timeout has fired since the last accepted start
    last            \* the task that ran last, what it was given and what it called

vars == <<range, vertical, isRtl, disabled, mounted, trackRef, thumb1Ref,
          thumb2Ref, dragging, draggingIndex, draggingBy, value, focus,
          listeners, net, lEff, tEff, pendL, pendT, timers, fired, last>>

----------------------------------------------------------------------------
(* Bounds of the model *)

MinV == 0
StepV == 2
NSteps == 2
MaxV == MinV + NSteps * StepV
\* the jump of incrementJump and decrementJump, in steps
JumpSteps == 2
JumpV == JumpSteps * StepV

\* the track's bounding rectangle: left = top = TrackStart, width = height = TrackSize
TrackStart == 1
TrackSize == 4
\* pointer and thumb coordinates are drawn from 0 .. MaxCoord
MaxCoord == 6

----------------------------------------------------------------------------
(* Values of the program's types *)

NULL == -1
ThumbIndex == {0, 1}
SliderThumbIndex == {NULL} \cup ThumbIndex
SliderDraggingBy == {"null", "mouse", "touch"}
EventTypes == {"mousemove", "mouseup", "touchmove", "touchend"}
Modifiers == {"none", "alt", "ctrl", "meta", "shift"}
NoCleanup == [by |-> "null", idx |-> NULL, dis |-> FALSE]
NoEvent == [type |-> "none", mod |-> "none", button |-> 0, clientX |-> 0,
            clientY |-> 0, x1 |-> 0, x2 |-> 0, y1 |-> 0, y2 |-> 0]
NoCalls == [handler |-> 0, accepted |-> FALSE, index |-> NULL, focus |-> 0,
            setValue |-> 0, preventDefault |-> 0, stopPropagation |-> 0,
            step |-> "none", steps |-> 0, stepIndex |-> NULL,
            setTimeout |-> 0, cancelled |-> 0, focusSeen |-> <<>>]
VALID_KEYS == {"ArrowDown", "ArrowUp", "ArrowLeft", "ArrowRight", "Home", "End",
               "PageUp", "PageDown"}
Primitives == {"increment", "incrementJump", "decrement", "decrementJump",
               "minimum", "maximum"}

Abs(x) == IF x < 0 THEN -x ELSE x
Min2(a, b) == IF a < b THEN a ELSE b
Max2(a, b) == IF a < b THEN b ELSE a

isMouseEvent(e) == e.type = "mouse"
isTouchEvent(e) == e.type = "touch"

----------------------------------------------------------------------------
(* Geometry Resolver (utils.getDragValue; spec section 4.2) *)

\* distance dragged along the track's primary axis, clamped to the track
getDragDistance(o) ==
    LET size == IF o.vertical THEN o.height ELSE o.width
        raw == IF o.vertical THEN size - (o.clientY - o.top)
               ELSE IF o.isRtl THEN size - (o.clientX - o.left)
               ELSE o.clientX - o.left
    IN Min2(size, Max2(0, raw))

\* the value for a pointer position, snapped to the step grid (round half up)
\* and clamped to [minValue, maxValue]
getDragValue(o) ==
    LET size == IF o.vertical THEN o.height ELSE o.width
        d == getDragDistance(o)
        steps == (2 * d * (o.max - o.min) + size * o.step) \div (2 * size * o.step)
        snapped == o.min + steps * o.step
    IN Min2(o.maxValue, Max2(o.minValue, snapped))

----------------------------------------------------------------------------
(* The component instance and its window, as one record *)

Cur == [mounted |-> mounted, disabled |-> disabled, trackRef |-> trackRef,
        thumb1Ref |-> thumb1Ref, thumb2Ref |-> thumb2Ref,
        dragging |-> dragging, draggingIndex |-> draggingIndex,
        draggingBy |-> draggingBy, value |-> value, focus |-> focus,
        listeners |-> listeners, net |-> net, lEff |-> lEff, tEff |-> tEff,
        pendL |-> pendL, pendT |-> pendT, timers |-> timers, fired |-> fired,
        calls |-> NoCalls]

Become(s) ==
    /\ mounted' = s.mounted
    /\ disabled' = s.disabled
    /\ trackRef' = s.trackRef
    /\ thumb1Ref' = s.thumb1Ref
    /\ thumb2Ref' = s.thumb2Ref
    /\ dragging' = s.dragging
    /\ draggingIndex' = s.draggingIndex
    /\ draggingBy' = s.draggingBy
    /\ value' = s.value
    /\ focus' = s.focus
    /\ listeners' = s.listeners
    /\ net' = s.net
    /\ lEff' = s.lEff
    /\ tEff' = s.tEff
    /\ pendL' = s.pendL
    /\ pendT' = s.pendT
    /\ timers' = s.timers
    /\ fired' = s.fired
    /\ UNCHANGED <<range, vertical, isRtl>>

\* what a task saw before it ran
Pre == [draggingIndex |-> draggingIndex, draggingBy |-> draggingBy,
        dragging |-> dragging, value |-> value, focus |-> focus,
        mounted |-> mounted, net |-> net, quiet |-> ~pendL /\ ~pendT]

----------------------------------------------------------------------------
(* The two effects of the hook *)

\* the identity of the drag callback: the dependencies of its useCallback
\* that can change (isRtl, max, min, step and vertical are fixed here)
DragClosure(s) == [idx |-> s.draggingIndex, dis |-> s.disabled]

MoveType(by) == IF by = "mouse" THEN "mousemove" ELSE "touchmove"
EndType(by) == IF by = "mouse" THEN "mouseup" ELSE "touchend"

\* window.addEventListener: the same listener is not bound twice
AddListener(s, type, fn) ==
    [s EXCEPT !.listeners[type] = @ \cup {fn}, !.net[type] = @ + 1]

RemoveListener(s, type, fn) ==
    [s EXCEPT !.listeners[type] = @ \ {fn}, !.net[type] = @ - 1]

\* mutant: the cleanup leaves the end listener bound
ListenerCleanup_MoveOnly(s) ==
    IF s.lEff.by = "null" THEN s
    ELSE LET c == s.lEff
             fn == [idx |-> c.idx, dis |-> c.dis]
             s1 == RemoveListener(s, MoveType(c.by), fn)
         IN [s1 EXCEPT !.lEff = NoCleanup]

\* the cleanup the listener effect returned when it last ran
ListenerCleanup(s) ==
    IF s.lEff.by = "null" THEN s
    ELSE LET c == s.lEff
             fn == [idx |-> c.idx, dis |-> c.dis]
             s1 == RemoveListener(s, MoveType(c.by), fn)
             s2 == RemoveListener(s1, EndType(c.by), "stop")
         IN [s2 EXCEPT !.lEff = NoCleanup]

\* mutant: the effect binds the mouse listeners whatever the modality
ListenerEffect_MouseOnly(s) ==
    IF s.draggingBy = "null" THEN s
    ELSE LET fn == DragClosure(s)
             s1 == AddListener(s, "mousemove", fn)
             s2 == AddListener(s1, "mouseup", "stop")
         IN [s2 EXCEPT !.lEff = [by |-> s.draggingBy, idx |-> fn.idx, dis |-> fn.dis]]

\* the body of the listener effect, run with the values of the last render
ListenerEffect(s) ==
    IF s.draggingBy = "null" THEN s
    ELSE LET fn == DragClosure(s)
             s1 == AddListener(s, MoveType(s.draggingBy), fn)
             s2 == AddListener(s1, EndType(s.draggingBy), "stop")
         IN [s2 EXCEPT !.lEff = [by |-> s.draggingBy, idx |-> fn.idx, dis |-> fn.dis]]

\* mutant: the cleanup does not clear the timeout
TimerCleanup_Keeps(s) == [s EXCEPT !.tEff = 0]

\* the cleanup the timer effect returned when it last ran: clearTimeout,
\* which cancels the timeout when it is still outstanding
TimerCleanup(s) ==
    IF s.tEff = 0 THEN s
    ELSE [s EXCEPT !.timers = {t \in @ : t.id # s.tEff}, !.tEff = 0,
                   !.calls.cancelled =
                       IF \E t \in s.timers : t.id = s.tEff THEN @ + 1 ELSE @]

FreshTimer(s) ==
    CHOOSE i \in 1 .. (Cardinality(s.timers) + 1) :
        /\ \A t \in s.timers : t.id # i
        /\ \A j \in 1 .. (i - 1) : \E t \in s.timers : t.id = j

\* mutant: the effect sets dragging at once instead of after the delay
TimerEffect_Immediate(s) ==
    IF s.draggingIndex = NULL /\ s.draggingBy = "null" THEN s
    ELSE IF s.draggingIndex = NULL THEN [s EXCEPT !.dragging = FALSE]
    ELSE [s EXCEPT !.dragging = TRUE]

\* mutant: the timeout is set whether or not a thumb is active
TimerEffect_Unguarded(s) ==
    LET id == FreshTimer(s)
    IN [s EXCEPT !.timers = @ \cup {[id |-> id, stale |-> FALSE]}, !.tEff = id,
                 !.calls.setTimeout = @ + 1]

\* the body of the timer effect, run with the values of the last render; the
\* setDragging(false) it may call renders at the end of the flush and
\* changes no dependency of either effect
TimerEffect(s) ==
    IF s.draggingIndex = NULL /\ s.draggingBy = "null" THEN s
    ELSE IF s.draggingIndex = NULL THEN [s EXCEPT !.dragging = FALSE]
    ELSE LET id == FreshTimer(s)
         IN [s EXCEPT !.timers = @ \cup {[id |-> id, stale |-> FALSE]}, !.tEff = id,
                      !.calls.setTimeout = @ + 1]

\* React runs the scheduled passive effects: every cleanup, then every body
\* (no body after an unmount)
Flush(s) ==
    LET s1 == IF s.pendL THEN ListenerCleanup(s) ELSE s
        s2 == IF s.pendT THEN TimerCleanup(s1) ELSE s1
        s3 == IF s.pendL /\ s.mounted THEN ListenerEffect(s2) ELSE s2
        s4 == IF s.pendT /\ s.mounted THEN TimerEffect(s3) ELSE s3
    IN [s4 EXCEPT !.pendL = FALSE, !.pendT = FALSE]

\* the effects whose dependencies differ between two renders
ListenerDepsChanged(a, b) ==
    a.draggingBy # b.draggingBy \/ DragClosure(a) # DragClosure(b)

TimerDepsChanged(a, b) ==
    a.draggingIndex # b.draggingIndex \/ a.draggingBy # b.draggingBy

\* a render and commit that takes the component from render a to render b
Commit(a, b) ==
    [b EXCEPT !.pendL = ListenerDepsChanged(a, b),
              !.pendT = TimerDepsChanged(a, b)]

\* a state setter called outside of a React event handler: no render when
\* the value is the current one or the component is unmounted, otherwise the
\* scheduled effects run and the component renders
SetStateSync(s, field, v) ==
    IF ~s.mounted \/ s[field] = v THEN s
    ELSE LET f == Flush(s)
         IN Commit(f, [f EXCEPT ![field] = v])

\* a state setter called inside a React event handler: the render is
\* deferred to the end of the handler
SetStateBatched(s, field, v) == [s EXCEPT ![field] = v]

SetState(s, field, v, batched) ==
    IF batched THEN SetStateBatched(s, field, v) ELSE SetStateSync(s, field, v)

----------------------------------------------------------------------------
(* drag and stop *)

altKey(e) == e.mod = "alt"
ctrlKey(e) == e.mod = "ctrl"
metaKey(e) == e.mod = "meta"
shiftKey(e) == e.mod = "shift"

\* mutant: shiftKey is not checked
DragRejects_NoShift(s, fn, e) ==
    \/ altKey(e)
    \/ ctrlKey(e)
    \/ metaKey(e)
    \/ fn.dis
    \/ ~s.trackRef
    \/ ~s.thumb1Ref
    \/ (isMouseEvent(e) /\ e.button # 0)
    \/ (~isMouseEvent(e) /\ ~isTouchEvent(e))

\* mutant: disabled is not checked
DragRejects_NoDisabled(s, fn, e) ==
    \/ altKey(e)
    \/ ctrlKey(e)
    \/ metaKey(e)
    \/ shiftKey(e)
    \/ ~s.trackRef
    \/ ~s.thumb1Ref
    \/ (isMouseEvent(e) /\ e.button # 0)
    \/ (~isMouseEvent(e) /\ ~isTouchEvent(e))

\* the early return of drag; fn is the drag callback that runs (the render
\* it closes over), the refs are read when it runs
DragRejects(s, fn, e) ==
    \/ altKey(e)
    \/ ctrlKey(e)
    \/ metaKey(e)
    \/ shiftKey(e)
    \/ fn.dis
    \/ ~s.trackRef
    \/ ~s.thumb1Ref
    \/ (isMouseEvent(e) /\ e.button # 0)
    \/ (~isMouseEvent(e) /\ ~isTouchEvent(e))

\* mutant: the x coordinates are compared in a vertical slider as well
ClosestThumb_XOnly(e) ==
    IF Abs(e.clientX - e.x1) < Abs(e.clientX - e.x2) THEN 0 ELSE 1

\* mutant: the comparison is not strict
ClosestThumb_TieFirst(e) ==
    IF vertical
    THEN (IF Abs(e.clientY - e.y1) <= Abs(e.clientY - e.y2) THEN 0 ELSE 1)
    ELSE (IF Abs(e.clientX - e.x1) <= Abs(e.clientX - e.x2) THEN 0 ELSE 1)

\* the thumb closest to the pointer; the first one only when strictly closer
ClosestThumb(e) ==
    IF vertical
    THEN (IF Abs(e.clientY - e.y1) < Abs(e.clientY - e.y2) THEN 0 ELSE 1)
    ELSE (IF Abs(e.clientX - e.x1) < Abs(e.clientX - e.x2) THEN 0 ELSE 1)

\* mutant: the closest thumb is looked up on every event
DragIndex_AlwaysClosest(s, fn, e) ==
    IF s.thumb2Ref THEN ClosestThumb(e) ELSE 0

\* mutant: the closest thumb is looked up without a second thumb as well
DragIndex_NoSecondCheck(s, fn, e) ==
    IF fn.idx = NULL THEN ClosestThumb(e) ELSE fn.idx

\* the thumb an accepted event moves
DragIndex(s, fn, e) ==
    IF s.thumb2Ref
    THEN (IF fn.idx = NULL THEN ClosestThumb(e) ELSE fn.idx)
    ELSE 0

\* the lower and upper limit of the moved thumb in a range slider
DragMinValue(index, thumb1Value) == IF index = 0 THEN MinV ELSE thumb1Value
\* mutant: thumb 0 is not limited by thumb 1
DragMaxValue_Unbounded(index, thumb2Value) == MaxV

DragMaxValue(index, thumb2Value) == IF index = 1 THEN MaxV ELSE thumb2Value

\* mutant: the text direction is not passed on
DragOptions_NoRtl(e) ==
    [min |-> MinV, max |-> MaxV, step |-> StepV, vertical |-> vertical,
     clientX |-> e.clientX, clientY |-> e.clientY,
     left |-> TrackStart, top |-> TrackStart,
     height |-> TrackSize, width |-> TrackSize,
     isRtl |-> FALSE, minValue |-> MinV, maxValue |-> MaxV]

\* mutant: the step is not passed on and is taken to be 1
DragOptions_UnitStep(e) ==
    [min |-> MinV, max |-> MaxV, step |-> 1, vertical |-> vertical,
     clientX |-> e.clientX, clientY |-> e.clientY,
     left |-> TrackStart, top |-> TrackStart,
     height |-> TrackSize, width |-> TrackSize,
     isRtl |-> isRtl, minValue |-> MinV, maxValue |-> MaxV]

\* mutant: the pointer's coordinates are passed on swapped
DragOptions_SwappedAxes(e) ==
    [min |-> MinV, max |-> MaxV, step |-> StepV, vertical |-> vertical,
     clientX |-> e.clientY, clientY |-> e.clientX,
     left |-> TrackStart, top |-> TrackStart,
     height |-> TrackSize, width |-> TrackSize,
     isRtl |-> isRtl, minValue |-> MinV, maxValue |-> MaxV]

\* the SliderDragValues drag builds from the event, the track's rectangle
\* and the props
DragOptions(e) ==
    [min |-> MinV, max |-> MaxV, step |-> StepV, vertical |-> vertical,
     clientX |-> e.clientX, clientY |-> e.clientY,
     left |-> TrackStart, top |-> TrackStart,
     height |-> TrackSize, width |-> TrackSize,
     isRtl |-> isRtl, minValue |-> MinV, maxValue |-> MaxV]

\* mutant: the new value is written to the first thumb whatever the index
DragSetValue_FirstThumb(v, index, e) ==
    LET options == DragOptions(e)
    IN IF range
       THEN LET val == getDragValue([options EXCEPT
                           !.minValue = DragMinValue(index, v[1]),
                           !.maxValue = DragMaxValue(index, v[2])])
            IN <<val, v[2]>>
       ELSE <<getDragValue(options)>>

\* controls.setValue as drag calls it
DragSetValue(v, index, e) ==
    LET options == DragOptions(e)
    IN IF range
       THEN LET val == getDragValue([options EXCEPT
                           !.minValue = DragMinValue(index, v[1]),
                           !.maxValue = DragMaxValue(index, v[2])])
            IN IF index = 0 THEN <<val, v[2]>> ELSE <<v[1], val>>
       ELSE <<getDragValue(options)>>

\* mutant: preventDefault is called on touch events as well
Drag_PreventsTouch(s, fn, e, batched) ==
    IF DragRejects(s, fn, e) THEN s
    ELSE LET index == DragIndex(s, fn, e)
             s1 == [s EXCEPT !.calls.accepted = TRUE,
                             !.calls.index = index,
                             !.calls.preventDefault = @ + 1,
                             !.calls.stopPropagation = @ + 1]
             s2 == IF fn.idx # index
                   THEN SetState([s1 EXCEPT !.focus = index, !.calls.focus = @ + 1,
                                            !.calls.focusSeen =
                                                Append(@, s1.draggingIndex)],
                                 "draggingIndex", index, batched)
                   ELSE s1
             s3 == SetState(s2, "draggingBy",
                            IF isMouseEvent(e) THEN "mouse" ELSE "touch", batched)
         IN [s3 EXCEPT !.value = DragSetValue(@, index, e),
                       !.calls.setValue = @ + 1]

\* mutant: the modality is set to mouse for a touch event as well
Drag_AlwaysMouse(s, fn, e, batched) ==
    IF DragRejects(s, fn, e) THEN s
    ELSE LET index == DragIndex(s, fn, e)
             s1 == [s EXCEPT !.calls.accepted = TRUE,
                             !.calls.index = index,
                             !.calls.preventDefault =
                                 IF ~isTouchEvent(e) THEN @ + 1 ELSE @,
                             !.calls.stopPropagation = @ + 1]
             s2 == IF fn.idx # index
                   THEN SetState([s1 EXCEPT !.focus = index, !.calls.focus = @ + 1,
                                            !.calls.focusSeen =
                                                Append(@, s1.draggingIndex)],
                                 "draggingIndex", index, batched)
                   ELSE s1
             s3 == SetState(s2, "draggingBy",
                            "mouse", batched)
         IN [s3 EXCEPT !.value = DragSetValue(@, index, e),
                       !.calls.setValue = @ + 1]

\* mutant: the thumb is focused after the state has been updated
Drag_FocusLast(s, fn, e, batched) ==
    IF DragRejects(s, fn, e) THEN s
    ELSE LET index == DragIndex(s, fn, e)
             s1 == [s EXCEPT !.calls.accepted = TRUE,
                             !.calls.index = index,
                             !.calls.preventDefault =
                                 IF ~isTouchEvent(e) THEN @ + 1 ELSE @,
                             !.calls.stopPropagation = @ + 1]
             s2 == IF fn.idx # index
                   THEN LET t == SetState(s1, "draggingIndex", index, batched)
                        IN [t EXCEPT !.focus = index, !.calls.focus = @ + 1,
                                     !.calls.focusSeen =
                                         Append(@, t.draggingIndex)]
                   ELSE s1
             s3 == SetState(s2, "draggingBy",
                            IF isMouseEvent(e) THEN "mouse" ELSE "touch", batched)
         IN [s3 EXCEPT !.value = DragSetValue(@, index, e),
                       !.calls.setValue = @ + 1]

\* drag
Drag(s, fn, e, batched) ==
    IF DragRejects(s, fn, e) THEN s
    ELSE LET index == DragIndex(s, fn, e)
             s1 == [s EXCEPT !.calls.accepted = TRUE,
                             !.calls.index = index,
                             !.calls.preventDefault =
                                 IF ~isTouchEvent(e) THEN @ + 1 ELSE @,
                             !.calls.stopPropagation = @ + 1]
             s2 == IF fn.idx # index
                   THEN SetState([s1 EXCEPT !.focus = index, !.calls.focus = @ + 1,
                                            !.calls.focusSeen =
                                                Append(@, s1.draggingIndex)],
                                 "draggingIndex", index, batched)
                   ELSE s1
             s3 == SetState(s2, "draggingBy",
                            IF isMouseEvent(e) THEN "mouse" ELSE "touch", batched)
         IN [s3 EXCEPT !.value = DragSetValue(@, index, e),
                       !.calls.setValue = @ + 1]

\* mutant: stop leaves the modality
stop_KeepsModality(s) ==
    LET s1 == SetStateSync(s, "dragging", FALSE)
    IN SetStateSync(s1, "draggingIndex", NULL)

\* stop is only ever called as a window listener
stop(s) ==
    LET s1 == SetStateSync(s, "dragging", FALSE)
        s2 == SetStateSync(s1, "draggingIndex", NULL)
    IN SetStateSync(s2, "draggingBy", "null")

\* mutant: a start event calls drag whatever draggingBy is
handleStart_Unguarded(s, e) ==
    LET s0 == Flush(s)
        s1 == [s0 EXCEPT !.calls.handler = @ + 1]
    IN Commit(s0, Drag(s1, DragClosure(s0), e, TRUE))

\* mutant: the caller's handler is called only when no session is active
handleStart_HandlerGuarded(s, e) ==
    LET s0 == Flush(s)
    IN IF s0.draggingBy = "null"
       THEN Commit(s0, Drag([s0 EXCEPT !.calls.handler = @ + 1],
                            DragClosure(s0), e, TRUE))
       ELSE s0

\* handleMouseDown and handleTouchStart: React flushes the scheduled effects
\* before it dispatches the event, and renders once when the handler
\* returns; the caller's onMouseDown or onTouchStart is called first
handleStart(s, e) ==
    LET s0 == Flush(s)
        s1 == [s0 EXCEPT !.calls.handler = @ + 1]
    IN IF s0.draggingBy = "null"
       THEN Commit(s0, Drag(s1, DragClosure(s0), e, TRUE))
       ELSE s1

handleMouseDown(s, e) == handleStart(s, e)
handleTouchStart(s, e) == handleStart(s, e)

----------------------------------------------------------------------------
(* The percentages the hook returns (utils.getPercentage; spec section 4.2) *)

RECURSIVE GCD(_, _)
GCD(a, b) == IF b = 0 THEN a ELSE GCD(b, a % b)

\* the fraction of the way from min to max, within [0, 1], as <<numerator,
\* denominator>>
getPercentage(min, max, v) ==
    LET size == max - min
        start == v - min
    IN <<Max2(0, Min2(Abs(start), size)), size>>

\* the template literal `${p * 100}%`: the number written in lowest terms,
\* followed by the percent sign
Percent(p) ==
    LET n == p[1] * 100
        g == GCD(n, p[2])
    IN [num |-> n \div g, den |-> p[2] \div g, unit |-> "%"]

NoPercentage == [num |-> 0, den |-> 0, unit |-> "undefined"]

\* what the render of the current value returns
thumb1Percentage == Percent(getPercentage(MinV, MaxV, value[1]))

\* mutant: the second percentage is computed from the first thumb's value
thumb2Percentage_OfThumb1 ==
    IF range THEN Percent(getPercentage(MinV, MaxV, value[1])) ELSE NoPercentage

thumb2Percentage ==
    IF range THEN Percent(getPercentage(MinV, MaxV, value[2])) ELSE NoPercentage

----------------------------------------------------------------------------
(* The value model's stepping primitives (spec section 6) *)

\* the value after a stepping primitive: a thumb of a range slider moves
\* between min, its sibling and max
StepValue(v, prim, index) ==
    LET i == IF range THEN index + 1 ELSE 1
        lo == IF range /\ index = 1 THEN v[1] ELSE MinV
        hi == IF range /\ index = 0 THEN v[2] ELSE MaxV
        cur == v[i]
        new == CASE prim = "increment" -> Min2(hi, cur + StepV)
                 [] prim = "decrement" -> Max2(lo, cur - StepV)
                 [] prim = "incrementJump" -> Min2(hi, cur + JumpV)
                 [] prim = "decrementJump" -> Max2(lo, cur - JumpV)
                 [] prim = "minimum" -> lo
                 [] prim = "maximum" -> hi
                 [] OTHER -> cur
    IN [v EXCEPT ![i] = new]

----------------------------------------------------------------------------
(* handleKeyDown *)

\* mutant: the key is not checked against VALID_KEYS
KeyRejects_AnyKey(dis, e) ==
    \/ altKey(e)
    \/ ctrlKey(e)
    \/ metaKey(e)
    \/ shiftKey(e)
    \/ dis

\* mutant: disabled is not checked
KeyRejects_IgnoresDisabled(dis, e) ==
    \/ altKey(e)
    \/ ctrlKey(e)
    \/ metaKey(e)
    \/ shiftKey(e)
    \/ e.key \notin VALID_KEYS

\* the early return of handleKeyDown; dis is the disabled of the render the
\* handler closes over
KeyRejects(dis, e) ==
    \/ altKey(e)
    \/ ctrlKey(e)
    \/ metaKey(e)
    \/ shiftKey(e)
    \/ dis
    \/ e.key \notin VALID_KEYS

\* mutant: the thumb is the one of the drag session when there is one
KeyIndex_FromSession(s, e) ==
    IF s.draggingIndex # NULL THEN s.draggingIndex
    ELSE IF e.target = "thumb2" /\ s.thumb2Ref THEN 1 ELSE 0

\* the thumb a key press steps in a range slider: the second one when the
\* event's currentTarget is thumb2Ref.current
KeyIndex(s, e) == IF e.target = "thumb2" /\ s.thumb2Ref THEN 1 ELSE 0

\* mutant: the switch has no case for PageUp and PageDown
KeyPrimitive_NoPage(key) ==
    CASE key \in {"ArrowUp", "ArrowRight"} -> "increment"
      [] key \in {"ArrowDown", "ArrowLeft"} -> "decrement"
      [] key = "Home" -> "minimum"
      [] key = "End" -> "maximum"
      [] OTHER -> "none"

\* mutant: Home and End are swapped
KeyPrimitive_SwappedEnds(key) ==
    CASE key \in {"ArrowUp", "ArrowRight"} -> "increment"
      [] key \in {"ArrowDown", "ArrowLeft"} -> "decrement"
      [] key = "Home" -> "maximum"
      [] key = "End" -> "minimum"
      [] key = "PageUp" -> "incrementJump"
      [] key = "PageDown" -> "decrementJump"
      [] OTHER -> "none"

\* the switch over the key
KeyPrimitive(key) ==
    CASE key \in {"ArrowUp", "ArrowRight"} -> "increment"
      [] key \in {"ArrowDown", "ArrowLeft"} -> "decrement"
      [] key = "Home" -> "minimum"
      [] key = "End" -> "maximum"
      [] key = "PageUp" -> "incrementJump"
      [] key = "PageDown" -> "decrementJump"
      [] OTHER -> "none"

\* mutant: keys are ignored during a drag session, as start events are
handleKeyDown_IdleOnly(s, e) ==
    LET s0 == Flush(s)
        s1 == [s0 EXCEPT !.calls.handler = @ + 1]
    IN IF KeyRejects(s0.disabled, e) \/ s0.draggingBy # "null" THEN s1
       ELSE LET index == IF range THEN KeyIndex(s1, e) ELSE NULL
                prim == KeyPrimitive(e.key)
                s2 == [s1 EXCEPT !.calls.preventDefault = @ + 1,
                                 !.calls.stopPropagation = @ + 1]
            IN IF prim \in Primitives
               THEN [s2 EXCEPT !.calls.step = prim,
                               !.calls.steps = @ + 1,
                               !.calls.stepIndex = index,
                               !.value = StepValue(@, prim, index)]
               ELSE s2

\* React flushes the scheduled effects before it dispatches the event; the
\* caller's onKeyDown is called first; the handler sets no state of the hook
handleKeyDown(s, e) ==
    LET s0 == Flush(s)
        s1 == [s0 EXCEPT !.calls.handler = @ + 1]
    IN IF KeyRejects(s0.disabled, e) THEN s1
       ELSE LET index == IF range THEN KeyIndex(s1, e) ELSE NULL
                prim == KeyPrimitive(e.key)
                s2 == [s1 EXCEPT !.calls.preventDefault = @ + 1,
                                 !.calls.stopPropagation = @ + 1]
            IN IF prim \in Primitives
               THEN [s2 EXCEPT !.calls.step = prim,
                               !.calls.steps = @ + 1,
                               !.calls.stepIndex = index,
                               !.value = StepValue(@, prim, index)]
               ELSE s2

\* mutant: the timeout ends the session
TimerCallback_Stops(s) == stop(s)

\* the timeout's callback
TimerCallback(s) == SetStateSync(s, "dragging", TRUE)

\* the session the outstanding timeouts were scheduled in is over
MarkStale(s) == [s EXCEPT !.timers = {[t EXCEPT !.stale = TRUE] : t \in @}]

----------------------------------------------------------------------------
(* The tasks *)

Did(op, e, s) == last' = [op |-> op, e |-> e, pre |-> Pre, calls |-> s.calls]

MouseDown(e) ==
    /\ mounted
    /\ isMouseEvent(e)
    /\ LET s == handleMouseDown(Cur, e)
       IN /\ Become([s EXCEPT !.fired = @ /\ ~s.calls.accepted])
          /\ Did("mousedown", e, s)

TouchStart(e) ==
    /\ mounted
    /\ isTouchEvent(e)
    /\ LET s == handleTouchStart(Cur, e)
       IN /\ Become([s EXCEPT !.fired = @ /\ ~s.calls.accepted])
          /\ Did("touchstart", e, s)

\* a mousemove or touchmove reaches the window
WindowMove(e) ==
    \E fn \in listeners[MoveType(e.type)] :
        LET s == Drag(Cur, fn, e, FALSE)
        IN /\ Become(s)
           /\ Did(MoveType(e.type), e, s)

\* the name of an end event that reaches the window while stop is not bound
\* as a listener of it
Unheard(type) == IF type = "mouseup" THEN "unheard mouseup" ELSE "unheard touchend"

\* a mouseup or touchend reaches the window: stop runs when it is bound as
\* a listener of that event, nothing runs otherwise
\* stop takes no argument: the event is not looked at
WindowEndEvent(e) ==
    LET by == e.type
        heard == "stop" \in listeners[EndType(by)]
        s == IF heard THEN MarkStale(stop(Cur)) ELSE Cur
    IN /\ Become(s)
       /\ Did(IF heard THEN EndType(by) ELSE Unheard(EndType(by)), e, s)

\* an end event of the primary button without modifier
WindowEnd(by) == WindowEndEvent([NoEvent EXCEPT !.type = by])

\* animationDuration has elapsed for an outstanding timeout
TimerFire ==
    \E t \in timers :
        LET s == TimerCallback([Cur EXCEPT !.timers = @ \ {t}])
        IN /\ Become([s EXCEPT !.fired = TRUE])
           /\ Did(IF t.stale THEN "staletimer" ELSE "timer", NoEvent, s)

\* the scheduler runs the passive effects
FlushEffects ==
    /\ pendL \/ pendT
    /\ LET s == Flush(Cur)
       IN /\ Become(s)
          /\ Did("flush", NoEvent, s)

\* the caller renders the component with another value of disabled
SetDisabled(b) ==
    /\ mounted
    /\ b # disabled
    /\ LET s0 == Flush(Cur)
           s == Commit(s0, [s0 EXCEPT !.disabled = b])
       IN /\ Become(s)
          /\ Did("disabled", NoEvent, s)

\* the component unmounts: the refs are detached in the commit, the cleanups
\* of both effects are scheduled
Unmount ==
    /\ mounted
    /\ LET s0 == Flush(Cur)
           s == MarkStale([s0 EXCEPT !.mounted = FALSE, !.trackRef = FALSE,
                                     !.thumb1Ref = FALSE, !.thumb2Ref = FALSE,
                                     !.pendL = TRUE, !.pendT = TRUE])
       IN /\ Become(s)
          /\ Did("unmount", NoEvent, s)

\* the caller sets the value of the value model: the component renders, no
\* state of the hook changes
CallerSetValue(v) ==
    /\ mounted
    /\ v # value
    /\ LET s0 == Flush(Cur)
           s == Commit(s0, [s0 EXCEPT !.value = v])
       IN /\ Become(s)
          /\ Did("value", NoEvent, s)

\* the caller renders the component with another animationDuration: a
\* dependency of the timer effect has changed
SetAnimationDuration ==
    /\ mounted
    /\ LET s0 == Flush(Cur)
           s == [Commit(s0, s0) EXCEPT !.pendT = TRUE]
       IN /\ Become(s)
          /\ Did("duration", NoEvent, s)

\* a key is pressed on a thumb element
KeyDown(e) ==
    /\ mounted
    /\ e.type = "key"
    /\ e.target = "thumb2" => range
    /\ LET s == handleKeyDown(Cur, e)
       IN /\ Become(s)
          /\ Did("keydown", e, s)

----------------------------------------------------------------------------
(* The specification of the drag session *)

Values == {MinV + k * StepV : k \in 0 .. NSteps}

InitValue(r) ==
    IF r THEN {v \in Values \X Values : v[1] <= v[2]}
    ELSE {<<a>> : a \in Values}

InitState ==
    /\ range \in BOOLEAN
    /\ vertical \in BOOLEAN
    /\ isRtl \in BOOLEAN
    /\ disabled \in BOOLEAN
    /\ mounted = TRUE
    /\ trackRef \in BOOLEAN
    /\ thumb1Ref \in BOOLEAN
    /\ thumb2Ref = range
    /\ dragging = FALSE
    /\ draggingIndex = NULL
    /\ draggingBy = "null"
    /\ value \in InitValue(range)
    /\ focus = NULL
    /\ listeners = [t \in EventTypes |-> {}]
    /\ net = [t \in EventTypes |-> 0]
    /\ lEff = NoCleanup
    /\ tEff = 0
    /\ pendL = FALSE
    /\ pendT = FALSE
    /\ timers = {}
    /\ fired = FALSE
    /\ last = [op |-> "init", e |-> NoEvent, pre |-> Pre, calls |-> NoCalls]

\* the pointer events of the session machine: on the diagonal, the two
\* thumbs at the ends of the track
Coords == 0 .. MaxCoord

SessionEvents ==
    {e \in {[type |-> ty, mod |-> m, button |-> b, clientX |-> p, clientY |-> p,
             x1 |-> TrackStart, x2 |-> TrackStart + TrackSize,
             y1 |-> TrackStart + TrackSize, y2 |-> TrackStart] :
                ty \in {"mouse", "touch"}, m \in {"none", "shift"}, b \in {0, 2},
                p \in {0, MaxCoord}} :
        isTouchEvent(e) => e.button = 0}

Init == InitState

Next ==
    \/ \E e \in SessionEvents : MouseDown(e)
    \/ \E e \in SessionEvents : TouchStart(e)
    \/ \E e \in SessionEvents : WindowMove(e)
    \/ \E by \in {"mouse", "touch"} : WindowEnd(by)
    \/ TimerFire
    \/ FlushEffects
    \/ \E b \in BOOLEAN : SetDisabled(b)
    \/ SetAnimationDuration
    \/ Unmount

Spec == Init /\ [][Next]_vars

----------------------------------------------------------------------------
(* The specification of the start of a session: every modifier and button, *)
(* and pointers and thumbs whose x and y coordinates differ                *)

NearStart == TrackStart + 1
Middle == TrackStart + TrackSize \div 2
NearEnd == TrackStart + TrackSize - 1
ThumbPairs == {<<TrackStart, TrackStart + TrackSize>>,
               <<TrackStart + TrackSize, TrackStart>>,
               <<Middle, Middle>>}

\* a pointer coordinate with the two thumbs' coordinates on the same axis
AxisCases == {<<c, tp[1], tp[2]>> : c \in {NearStart, Middle, NearEnd}, tp \in ThumbPairs}
FewAxisCases == {<<NearStart, TrackStart, TrackStart + TrackSize>>,
                 <<NearStart, TrackStart + TrackSize, TrackStart>>}

PickEvents ==
    {e \in {[type |-> ty, mod |-> "none", button |-> 0,
             clientX |-> ax[1], clientY |-> ay[1],
             x1 |-> ax[2], x2 |-> ax[3], y1 |-> ay[2], y2 |-> ay[3]] :
                ty \in {"mouse", "touch"}, ax \in AxisCases, ay \in AxisCases} :
        \/ <<e.clientX, e.x1, e.x2>> \in FewAxisCases
        \/ <<e.clientY, e.y1, e.y2>> \in FewAxisCases}

RejectEvents ==
    {e \in {[type |-> ty, mod |-> m, button |-> b, clientX |-> NearStart,
             clientY |-> NearStart, x1 |-> TrackStart, x2 |-> TrackStart + TrackSize,
             y1 |-> TrackStart, y2 |-> TrackStart + TrackSize] :
                ty \in {"mouse", "touch"}, m \in Modifiers, b \in {0, 1, 2}} :
        isTouchEvent(e) => e.button = 0}

\* a range slider with its elements registered, enabled, idle
InitPick ==
    /\ InitState
    /\ range
    /\ ~isRtl
    /\ ~disabled
    /\ trackRef
    /\ thumb1Ref
    /\ value = <<MinV, MaxV>>

NextPick ==
    \/ \E e \in PickEvents : MouseDown(e)
    \/ \E e \in PickEvents : TouchStart(e)
    \/ \E by \in {"mouse", "touch"} : WindowEnd(by)
    \/ FlushEffects

SpecPick == InitPick /\ [][NextPick]_vars

\* every configuration, every modifier and button
InitReject ==
    /\ InitState
    /\ ~isRtl
    /\ ~vertical

NextReject ==
    \/ \E e \in RejectEvents : MouseDown(e)
    \/ \E e \in RejectEvents : TouchStart(e)
    \/ \E by \in {"mouse", "touch"} : WindowEnd(by)
    \/ FlushEffects
    \/ \E b \in BOOLEAN : SetDisabled(b)

SpecReject == InitReject /\ [][NextReject]_vars

----------------------------------------------------------------------------
(* The specification of the geometry: every pointer position on either     *)
(* axis, in every orientation and text direction                           *)

FewCoords == {0, Middle, MaxCoord}

\* every position on one axis with a few on the other for the mouse, a few
\* positions for a touch
GeoEvents ==
    {e \in {[type |-> ty, mod |-> "none", button |-> 0,
             clientX |-> p[1], clientY |-> p[2],
             x1 |-> TrackStart, x2 |-> TrackStart + TrackSize,
             y1 |-> TrackStart + TrackSize, y2 |-> TrackStart] :
                ty \in {"mouse", "touch"},
                p \in (Coords \X FewCoords) \cup (FewCoords \X Coords)} :
        isTouchEvent(e) => (e.clientX \in FewCoords /\ e.clientY \in FewCoords)}

\* an enabled slider with its elements registered, idle, at its lowest value
InitGeo ==
    /\ InitState
    /\ ~disabled
    /\ trackRef
    /\ thumb1Ref
    /\ value = (IF range THEN <<MinV, MaxV>> ELSE <<MinV>>)

NextGeo ==
    \/ \E e \in GeoEvents : MouseDown(e)
    \/ \E e \in GeoEvents : TouchStart(e)
    \/ \E e \in GeoEvents : WindowMove(e)
    \/ \E by \in {"mouse", "touch"} : WindowEnd(by)
    \/ FlushEffects

SpecGeo == InitGeo /\ [][NextGeo]_vars

----------------------------------------------------------------------------
(* The specification of the keyboard: every key, modifier and thumb, in    *)
(* Idle and during a session                                               *)

Keys == VALID_KEYS \cup {"Enter"}

\* every key without modifier, a recognized and an unrecognized key with
\* every modifier, on either thumb
KeyEvents ==
    {e \in {[type |-> "key", mod |-> m, button |-> 0, clientX |-> 0, clientY |-> 0,
             x1 |-> 0, x2 |-> 0, y1 |-> 0, y2 |-> 0, key |-> k, target |-> t] :
                k \in Keys, m \in Modifiers, t \in {"thumb1", "thumb2"}} :
        e.mod # "none" => e.key \in {"ArrowUp", "Enter"}}

\* a pointer at either end of the track, the thumbs at its two ends
KeyPointerEvents ==
    {[type |-> ty, mod |-> "none", button |-> 0, clientX |-> p, clientY |-> p,
      x1 |-> TrackStart, x2 |-> TrackStart + TrackSize,
      y1 |-> TrackStart + TrackSize, y2 |-> TrackStart] :
         ty \in {"mouse", "touch"}, p \in {MaxCoord}}

\* a horizontal slider with its track and first thumb registered; the second
\* thumb of a range slider may not be registered
InitKey ==
    /\ range \in BOOLEAN
    /\ vertical = FALSE
    /\ isRtl = FALSE
    /\ disabled \in BOOLEAN
    /\ mounted = TRUE
    /\ trackRef = TRUE
    /\ thumb1Ref = TRUE
    /\ thumb2Ref \in (IF range THEN BOOLEAN ELSE {FALSE})
    /\ dragging = FALSE
    /\ draggingIndex = NULL
    /\ draggingBy = "null"
    /\ value = (IF range THEN <<MinV, MaxV>> ELSE <<MinV>>)
    /\ focus = NULL
    /\ listeners = [t \in EventTypes |-> {}]
    /\ net = [t \in EventTypes |-> 0]
    /\ lEff = NoCleanup
    /\ tEff = 0
    /\ pendL = FALSE
    /\ pendT = FALSE
    /\ timers = {}
    /\ fired = FALSE
    /\ last = [op |-> "init", e |-> NoEvent, pre |-> Pre, calls |-> NoCalls]

NextKey ==
    \/ \E e \in KeyEvents : KeyDown(e)
    \/ \E e \in KeyPointerEvents : MouseDown(e)
    \/ \E e \in KeyPointerEvents : TouchStart(e)
    \/ \E e \in KeyPointerEvents : WindowMove(e)
    \/ \E by \in {"mouse", "touch"} : WindowEnd(by)
    \/ TimerFire
    \/ FlushEffects
    \/ \E b \in BOOLEAN : SetDisabled(b)
    \/ \E v \in InitValue(range) : CallerSetValue(v)

SpecKey == InitKey /\ [][NextKey]_vars

\* the drag session of a slider whose animationDuration never changes
NextFixedDuration ==
    \/ \E e \in SessionEvents : MouseDown(e)
    \/ \E e \in SessionEvents : TouchStart(e)
    \/ \E e \in SessionEvents : WindowMove(e)
    \/ \E by \in {"mouse", "touch"} : WindowEnd(by)
    \/ TimerFire
    \/ FlushEffects
    \/ \E b \in BOOLEAN : SetDisabled(b)
    \/ Unmount

SpecFixedDuration == Init /\ [][NextFixedDuration]_vars

\* the drag session with end events of every button and with modifiers
EndEvents ==
    {e \in {[NoEvent EXCEPT !.type = ty, !.mod = m, !.button = b] :
                ty \in {"mouse", "touch"}, m \in {"none", "shift"}, b \in {0, 2}} :
        isTouchEvent(e) => e.button = 0}

NextEnd ==
    \/ \E e \in SessionEvents : MouseDown(e)
    \/ \E e \in SessionEvents : TouchStart(e)
    \/ \E e \in SessionEvents : WindowMove(e)
    \/ \E e \in EndEvents : WindowEndEvent(e)
    \/ TimerFire
    \/ FlushEffects

SpecEnd == Init /\ [][NextEnd]_vars

\* the three handlers the hook returns, with start events of every button
\* and with modifiers, on an enabled or disabled slider
NextHandlers ==
    \/ \E e \in KeyEvents : KeyDown(e)
    \/ \E e \in SessionEvents : MouseDown(e)
    \/ \E e \in SessionEvents : TouchStart(e)
    \/ \E by \in {"mouse", "touch"} : WindowEnd(by)
    \/ FlushEffects
    \/ \E b \in BOOLEAN : SetDisabled(b)

SpecHandlers == InitKey /\ [][NextHandlers]_vars

----------------------------------------------------------------------------
(* Properties *)

Starts == {"mousedown", "touchstart"}
Moves == {"mousemove", "touchmove"}
Ends == {"mouseup", "touchend"}

\* C1: `dragging` is true only after the timeout of the running session has
\* fired (never in a session whose end event comes first), the timeout
\* firing in a session makes it true, it then stays true until an end event,
\* and it is false once an end event has been processed by the mounted
\* controller.
C1_DraggingFollowsTimer ==
    [][/\ dragging' => fired'
       /\ (last'.op = "timer" /\ draggingIndex # NULL) => dragging'
       /\ (dragging /\ ~dragging') => last'.op \in Ends
       /\ (last'.op \in Ends /\ mounted') => ~dragging']_vars

C1_Witness ==
    /\ last.op \in Ends
    /\ last.pre.dragging
    /\ fired
    /\ ~dragging

\* C2 as stated: the timeout's callback never runs once its session has
\* ended or the controller has been unmounted.
C2_NoStaleTimer == last.op # "staletimer"

\* the extent of the divergence from C2: a callback that runs after its
\* session is over runs after an
\* unmount whose effect cleanup is still scheduled, and changes no state; no
\* timeout outlives that cleanup or an end event, and `dragging` is never true
\* while no thumb is active.
C2_StaleTimerOnlyUnmounted ==
    /\ last.op = "staletimer" =>
          /\ ~mounted
          /\ pendT
          /\ dragging = last.pre.dragging
          /\ draggingIndex = last.pre.draggingIndex
          /\ draggingBy = last.pre.draggingBy
    /\ (last.op \in Ends /\ mounted) => timers = {}
    /\ (~mounted /\ ~pendT) => timers = {}
    /\ dragging => draggingIndex # NULL

C2_Witness ==
    /\ last.op = "staletimer"
    /\ ~mounted
    /\ ~dragging
    /\ draggingIndex # NULL

\* C3 as stated: every net count of listener calls is zero after the end
\* event has been processed.
C3_ZeroAfterEnd == last.op \in Ends => \A t \in EventTypes : net[t] = 0

\* the extent of the divergence from C3: after an end event every net count
\* is zero or one; it is zero
\* for every event type once the effects scheduled by the render of the end
\* event have run.
C3_ZeroAfterEndFlushed ==
    /\ \A t \in EventTypes : net[t] \in {0, 1}
    /\ (draggingBy = "null" /\ ~pendL) => \A t \in EventTypes : net[t] = 0

C3_Witness ==
    /\ last.op = "flush"
    /\ draggingBy = "null"
    /\ last.pre.net["mousemove"] = 1
    /\ last.pre.net["mouseup"] = 1
    /\ \A t \in EventTypes : net[t] = 0

ListenersOf(by) ==
    [t \in EventTypes |->
        IF by # "null" /\ t \in {MoveType(by), EndType(by)} THEN 1 ELSE 0]

Bound == [t \in EventTypes |-> Cardinality(listeners[t])]

\* C4 as stated: in every reachable state the bound listeners are exactly
\* those of the current modality.
C4_ListenersMatch == Bound = ListenersOf(draggingBy)

\* the extent of the divergence from C4: whenever the listener effect is not
\* scheduled, the bound
\* listeners are exactly those of the current modality (none after an
\* unmount); in every state no listener is bound twice and the listeners of
\* the two modalities are never bound together.
C4_ListenersMatchFlushed ==
    /\ ~pendL => Bound = ListenersOf(IF mounted THEN draggingBy ELSE "null")
    /\ Bound = net
    /\ \A t \in EventTypes : Bound[t] <= 1
    /\ ~(Bound["mousemove"] + Bound["mouseup"] > 0
         /\ Bound["touchmove"] + Bound["touchend"] > 0)

C4_Witness ==
    /\ last.op = "flush"
    /\ draggingBy = "touch"
    /\ Bound = ListenersOf("touch")
    /\ last.pre.net = ListenersOf("null")

\* C5: a start event received while a modality is set changes neither the
\* modality, nor the active thumb, nor the value; the modality never changes
\* from one of mouse and touch to the other in one step.
C5_SessionExclusive ==
    [][/\ (last'.op \in Starts /\ draggingBy # "null") =>
             /\ draggingBy' = draggingBy
             /\ draggingIndex' = draggingIndex
             /\ value' = value
             /\ last'.calls.setValue = 0
       /\ (draggingBy # "null" /\ draggingBy' # "null") => draggingBy' = draggingBy]_vars

C5_Witness ==
    /\ last.op = "touchstart"
    /\ last.pre.draggingBy = "mouse"
    /\ last.e.mod = "none"
    /\ ~disabled /\ trackRef /\ thumb1Ref
    /\ draggingBy = "mouse"
    /\ ~last.calls.accepted

\* C6: a start event received in Idle with a modifier key held, with the
\* controller disabled, with the track or the first thumb not registered, or
\* from a mouse button other than the primary one, changes nothing: active
\* thumb, modality, `dragging`, value and focus stay, no listener is bound
\* and no timeout is outstanding afterwards.
C6_RejectedStart ==
    (/\ last.op \in Starts
     /\ last.pre.draggingBy = "null"
     /\ last.pre.draggingIndex = NULL
     /\ \/ last.e.mod \in {"alt", "ctrl", "meta", "shift"}
        \/ disabled
        \/ ~trackRef
        \/ ~thumb1Ref
        \/ (last.e.type = "mouse" /\ last.e.button # 0))
    => /\ draggingIndex = NULL
       /\ draggingBy = "null"
       /\ dragging = last.pre.dragging
       /\ value = last.pre.value
       /\ focus = last.pre.focus
       /\ last.calls.focus = 0
       /\ last.calls.setValue = 0
       /\ \A t \in EventTypes : listeners[t] = {}
       /\ timers = {}
       /\ ~pendL /\ ~pendT

C6_Witness ==
    /\ last.op = "mousedown"
    /\ last.pre.draggingBy = "null"
    /\ last.e.mod = "shift"
    /\ last.e.button = 0
    /\ ~disabled /\ trackRef /\ thumb1Ref
    /\ draggingBy = "null"

\* the distance from the pointer of the last event to each thumb, on the
\* slider's axis
Dist1 == IF vertical THEN Abs(last.e.clientY - last.e.y1) ELSE Abs(last.e.clientX - last.e.x1)
Dist2 == IF vertical THEN Abs(last.e.clientY - last.e.y2) ELSE Abs(last.e.clientX - last.e.x2)

PickedInIdle ==
    /\ last.op \in Starts
    /\ last.calls.accepted
    /\ last.pre.draggingIndex = NULL
    /\ range
    /\ thumb2Ref

\* C7: in a range slider with no thumb active, an accepted start event
\* whose pointer is closer to one thumb selects that thumb.
C7_SelectsCloserThumb ==
    PickedInIdle =>
        /\ Dist1 < Dist2 => draggingIndex = 0
        /\ Dist2 < Dist1 => draggingIndex = 1

\* thumbs at the two ends of the track, the pointer near the second one on
\* the x axis and near the first one on the y axis
C7_Witness ==
    /\ PickedInIdle
    /\ ~vertical
    /\ last.e.x1 = TrackStart /\ last.e.x2 = TrackStart + TrackSize
    /\ last.e.clientX = NearEnd
    /\ last.e.y1 = TrackStart /\ last.e.y2 = TrackStart + TrackSize
    /\ last.e.clientY = NearStart
    /\ draggingIndex = 1

\* C8 as stated: a start event at the same distance from both thumbs
\* selects thumb 0.
C8_TieSelectsFirst == (PickedInIdle /\ Dist1 = Dist2) => draggingIndex = 0

\* C8 amended: a start event at the same distance from both thumbs selects
\* thumb 1.
C8_TieSelectsSecond == (PickedInIdle /\ Dist1 = Dist2) => draggingIndex = 1

C8_Witness ==
    /\ PickedInIdle
    /\ ~vertical
    /\ last.e.x1 = TrackStart /\ last.e.x2 = TrackStart + TrackSize
    /\ Dist1 = Dist2
    /\ draggingIndex = 1

\* C9: while a thumb is active, a move event leaves the active thumb as it
\* is, and the active thumb only changes by an end event clearing it.
C9_ThumbFixedInSession ==
    [][draggingIndex # NULL =>
          /\ last'.op \in Moves => draggingIndex' = draggingIndex
          /\ draggingIndex' # draggingIndex =>
                (last'.op \in Ends /\ draggingIndex' = NULL)]_vars

\* thumb 0 is active and an accepted move is closer to thumb 1
C9_Witness ==
    /\ last.op \in Moves
    /\ last.calls.accepted
    /\ range /\ thumb2Ref
    /\ last.pre.draggingIndex = 0
    /\ Dist2 < Dist1
    /\ draggingIndex = 0

\* C10: in a range slider thumb 0's new value is at most thumb 1's value
\* and thumb 1's new value at least thumb 0's, so the pair stays ordered.
C10_NoCrossing ==
    range =>
        /\ value[1] <= value[2]
        /\ (last.op \in Starts \cup Moves /\ last.calls.accepted) =>
              /\ last.calls.index = 0 => value[1] <= last.pre.value[2]
              /\ last.calls.index = 1 => value[2] >= last.pre.value[1]

\* thumb 0 is dragged to the far end of the track and stops at thumb 1
C10_Witness ==
    /\ range
    /\ last.op \in Moves
    /\ last.calls.accepted
    /\ last.calls.index = 0
    /\ getDragValue(DragOptions(last.e)) = MaxV
    /\ last.pre.value[2] < MaxV
    /\ last.pre.value[1] < last.pre.value[2]
    /\ value = <<last.pre.value[2], last.pre.value[2]>>

\* the last task was a start or move event that drag accepted
Dragged == last.op \in Starts \cup Moves /\ last.calls.accepted

\* C11: in a horizontal single-value slider an accepted pointer event
\* strictly left of the track sets the value to min (to max in
\* right-to-left direction), one strictly right of the track sets it to max
\* (to min in right-to-left direction).
C11_OutsideTrackClamps ==
    (Dragged /\ ~range /\ ~vertical) =>
        /\ last.e.clientX < TrackStart =>
              value = <<IF isRtl THEN MaxV ELSE MinV>>
        /\ last.e.clientX > TrackStart + TrackSize =>
              value = <<IF isRtl THEN MinV ELSE MaxV>>

\* right-to-left: a pointer left of the track takes the value from min to max
C11_Witness ==
    /\ Dragged
    /\ ~range /\ ~vertical /\ isRtl
    /\ last.e.clientX < TrackStart
    /\ last.pre.value = <<MinV>>
    /\ value = <<MaxV>>

\* C12: every thumb value is min + k * step for an integer k >= 0 and lies
\* within [min, max], in every state reached by drag updates from values on
\* the grid.
C12_OnStepGrid ==
    \A i \in DOMAIN value :
        /\ MinV <= value[i]
        /\ value[i] <= MaxV
        /\ (value[i] - MinV) % StepV = 0

\* a pointer a quarter of the way along the track, between two grid values:
\* the value is rounded up to the next one
C12_Witness ==
    /\ Dragged
    /\ ~range /\ ~vertical /\ ~isRtl
    /\ last.e.clientX = TrackStart + 1
    /\ last.pre.value = <<MinV>>
    /\ value = <<MinV + StepV>>

\* the pointer's coordinate on the slider's axis
AxisCoord(e) == IF vertical THEN e.clientY ELSE e.clientX

\* the value of the thumb the last event moved
ActiveValue(v, calls) == v[IF range THEN calls.index + 1 ELSE 1]

\* C13: the value depends on the pointer's coordinate on the slider's axis
\* only (clientY when vertical, clientX otherwise); it grows upwards in a
\* vertical slider (max at or above the track's top, min at or below its
\* bottom), left to right in a horizontal one, and right to left when isRtl.
C13_AxisAndDirection ==
    [][/\ (Dragged' /\ ~range) =>
             LET c == AxisCoord(last'.e)
                 atStart == c <= TrackStart
                 atEnd == c >= TrackStart + TrackSize
             IN /\ (vertical /\ atStart) => value' = <<MaxV>>
                /\ (vertical /\ atEnd) => value' = <<MinV>>
                /\ (~vertical /\ ~isRtl /\ atStart) => value' = <<MinV>>
                /\ (~vertical /\ ~isRtl /\ atEnd) => value' = <<MaxV>>
                /\ (~vertical /\ isRtl /\ atStart) => value' = <<MaxV>>
                /\ (~vertical /\ isRtl /\ atEnd) => value' = <<MinV>>
       /\ (Dragged /\ Dragged' /\ last.calls.index = last'.calls.index) =>
             LET a == AxisCoord(last.e)
                 b == AxisCoord(last'.e)
                 va == ActiveValue(value, last.calls)
                 vb == ActiveValue(value', last'.calls)
                 reversed == vertical \/ isRtl
             IN /\ a = b => value' = value
                /\ (a <= b /\ ~reversed) => va <= vb
                /\ (a <= b /\ reversed) => va >= vb]_vars

\* a vertical slider goes from min to max for a pointer at the track's top,
\* wherever the pointer is horizontally
C13_Witness ==
    /\ Dragged
    /\ ~range /\ vertical
    /\ last.e.clientY = TrackStart
    /\ last.e.clientX = MaxCoord
    /\ last.pre.value = <<MinV>>
    /\ value = <<MaxV>>

\* C14: in a range slider an accepted drag event changes the active thumb's
\* component of the pair only: the other component is the one of the pair
\* the update was applied to.
C14_SiblingUnchanged ==
    (Dragged /\ range) =>
        /\ last.calls.index = 0 => value[2] = last.pre.value[2]
        /\ last.calls.index = 1 => value[1] = last.pre.value[1]

\* the second thumb is moved, the first stays
C14_Witness ==
    /\ Dragged
    /\ range
    /\ last.calls.index = 1
    /\ value[2] # last.pre.value[2]
    /\ value[1] = last.pre.value[1]

\* the last task was a key press, and one that handleKeyDown handles: a
\* recognized key, no modifier, the slider enabled
KeyPressed == last.op = "keydown"
Handled ==
    /\ KeyPressed
    /\ last.e.mod = "none"
    /\ ~disabled
    /\ last.e.key \in VALID_KEYS

\* C15: an unmodified press of a recognized key on an enabled slider calls
\* one stepping primitive, once: increment for ArrowUp and ArrowRight,
\* decrement for ArrowDown and ArrowLeft, minimum for Home, maximum for End,
\* incrementJump for PageUp and decrementJump for PageDown.
C15_KeyCallsOnePrimitive ==
    Handled =>
        /\ last.calls.steps = 1
        /\ last.e.key \in {"ArrowUp", "ArrowRight"} => last.calls.step = "increment"
        /\ last.e.key \in {"ArrowDown", "ArrowLeft"} => last.calls.step = "decrement"
        /\ last.e.key = "Home" => last.calls.step = "minimum"
        /\ last.e.key = "End" => last.calls.step = "maximum"
        /\ last.e.key = "PageUp" => last.calls.step = "incrementJump"
        /\ last.e.key = "PageDown" => last.calls.step = "decrementJump"

C15_Witness ==
    /\ Handled
    /\ last.e.key = "PageDown"
    /\ last.calls.step = "decrementJump"
    /\ last.calls.steps = 1
    /\ value # last.pre.value

\* C16: on a single-value slider End sets the value to max and Home sets it
\* to min, whatever the value was.
C16_HomeEndSingle ==
    (Handled /\ ~range) =>
        /\ last.e.key = "End" => value = <<MaxV>>
        /\ last.e.key = "Home" => value = <<MinV>>

\* End pressed at a value between min and max
C16_Witness ==
    /\ Handled
    /\ ~range
    /\ last.e.key = "End"
    /\ last.pre.value[1] > MinV
    /\ last.pre.value[1] < MaxV
    /\ value = <<MaxV>>

\* C17: a press of an unrecognized key, or of any key with a modifier held,
\* calls no stepping primitive and changes no value; the caller's onKeyDown
\* is called with it, and neither preventDefault nor stopPropagation is.
C17_UnhandledKeyPassesThrough ==
    (KeyPressed /\ (last.e.key \notin VALID_KEYS \/ last.e.mod # "none")) =>
        /\ last.calls.steps = 0
        /\ last.calls.step = "none"
        /\ value = last.pre.value
        /\ last.calls.handler = 1
        /\ last.calls.preventDefault = 0
        /\ last.calls.stopPropagation = 0

\* an unrecognized key without modifier on an enabled slider
C17_Witness ==
    /\ KeyPressed
    /\ last.e.key = "Enter"
    /\ last.e.mod = "none"
    /\ ~disabled
    /\ last.calls.handler = 1
    /\ last.calls.preventDefault = 0

\* C18: preventDefault and stopPropagation are both called, once, on every
\* key press that is handled, and neither is called on any other key press.
C18_HandledKeySuppressed ==
    KeyPressed =>
        /\ Handled => (last.calls.preventDefault = 1 /\ last.calls.stopPropagation = 1)
        /\ ~Handled => (last.calls.preventDefault = 0 /\ last.calls.stopPropagation = 0)

\* a recognized key without modifier on a disabled slider is not handled
C18_Witness ==
    /\ KeyPressed
    /\ disabled
    /\ last.e.mod = "none"
    /\ last.e.key = "ArrowUp"
    /\ last.calls.preventDefault = 0
    /\ last.calls.stopPropagation = 0

\* C19: in a range slider a handled key press steps thumb 1 exactly when it
\* is delivered on the registered second thumb, and thumb 0 otherwise,
\* whatever thumb a drag session holds.
C19_KeyTargetsItsThumb ==
    (Handled /\ range) =>
        LET index == IF last.e.target = "thumb2" /\ thumb2Ref THEN 1 ELSE 0
        IN /\ last.calls.steps = 1
           /\ last.calls.stepIndex = index

\* a key pressed on the first thumb while the second one is dragged
C19_Witness ==
    /\ Handled
    /\ range
    /\ last.pre.draggingIndex = 1
    /\ last.e.target = "thumb1"
    /\ last.calls.stepIndex = 0
    /\ value[1] # last.pre.value[1]
    /\ value[2] = last.pre.value[2]

\* C20: neither preventDefault nor stopPropagation is called on a pointer
\* event that is rejected; both are called on an accepted mouse event; on an
\* accepted touch event stopPropagation is called and preventDefault is not.
C20_SilentRejection ==
    last.op \in Starts \cup Moves =>
        LET c == last.calls
            breaksRule == \/ last.e.mod # "none"
                          \/ ~trackRef
                          \/ ~thumb1Ref
                          \/ (isMouseEvent(last.e) /\ last.e.button # 0)
        IN /\ breaksRule => ~c.accepted
           /\ ~c.accepted => (c.preventDefault = 0 /\ c.stopPropagation = 0)
           /\ (c.accepted /\ isMouseEvent(last.e)) =>
                 (c.preventDefault = 1 /\ c.stopPropagation = 1)
           /\ (c.accepted /\ isTouchEvent(last.e)) =>
                 (c.preventDefault = 0 /\ c.stopPropagation = 1)

\* an accepted touchmove
C20_Witness ==
    /\ last.op = "touchmove"
    /\ last.calls.accepted
    /\ last.calls.preventDefault = 0
    /\ last.calls.stopPropagation = 1

\* the last task was an end event of the modality of the session that was
\* active when it arrived, heard by the controller or not
EndOfSession ==
    /\ last.pre.mounted
    /\ last.pre.draggingBy # "null"
    /\ last.op \in {EndType(last.pre.draggingBy), Unheard(EndType(last.pre.draggingBy))}

Idle == draggingIndex = NULL /\ draggingBy = "null" /\ ~dragging

\* C21 as stated: after an accepted start, an end event of the session's
\* modality returns the controller to Idle, however soon it arrives.
C21_EndReturnsToIdle == EndOfSession => Idle

\* the extent of the divergence from C21: an end event that stop hears
\* returns the mounted controller to Idle; an end event of the session's
\* modality goes unheard only while the listener effect is still scheduled.
C21_HeardEndReturnsToIdle ==
    /\ (last.op \in Ends /\ mounted) => Idle
    /\ (EndOfSession /\ last.op \notin Ends) => pendL

\* C22: thumb1Percentage, and thumb2Percentage in a range slider, is the
\* number (value - min) / (max - min) * 100 of the thumb's current value
\* followed by "%", whatever changed the value: "0%" at min, "100%" at max.
C22_PercentageOfValue ==
    LET Is(p, v) ==
            /\ p.unit = "%"
            /\ p.den > 0
            /\ p.num * (MaxV - MinV) = p.den * (v - MinV) * 100
            /\ v = MinV => (p.num = 0 /\ p.den = 1)
            /\ v = MaxV => (p.num = 100 /\ p.den = 1)
    IN /\ Is(thumb1Percentage, value[1])
       /\ range => Is(thumb2Percentage, value[2])
       /\ ~range => thumb2Percentage.unit = "undefined"

\* a key press takes the first thumb from min to a value short of max
C22_Witness ==
    /\ last.op = "keydown"
    /\ last.pre.value[1] = MinV
    /\ value[1] > MinV
    /\ value[1] < MaxV
    /\ thumb1Percentage.num > 0
    /\ thumb1Percentage.num < 100 * thumb1Percentage.den

\* C23: in a single-value slider the active thumb index is null or 0 in
\* every state, never 1.
C23_SingleThumbIndex == ~range => draggingIndex \in {NULL, 0}

\* a single-value slider accepts a pointer that is closer to where a second
\* thumb would be
C23_Witness ==
    /\ ~range
    /\ Dragged
    /\ Dist2 < Dist1
    /\ draggingIndex = 0

\* C24: at most one timeout is outstanding at any time, and it is the one
\* the timer effect scheduled last: a timeout scheduled before it has been
\* cancelled by the time it is scheduled.
C24_OneTimer ==
    /\ Cardinality(timers) <= 1
    /\ \A t \in timers : t.id = tEff
    /\ last.calls.setTimeout <= 1

\* the effects run after animationDuration has changed during a session:
\* the outstanding timeout is cancelled and another one is scheduled
C24_Witness ==
    /\ last.calls.cancelled = 1
    /\ last.calls.setTimeout = 1
    /\ Cardinality(timers) = 1
    /\ draggingIndex # NULL

\* the tasks that run a callback of the controller
Callbacks == Moves \cup Ends \cup {"timer", "staletimer"}

\* C25 as stated: once the controller is unmounted no window listener of it
\* is bound, no timeout is outstanding, and none of its move, end and timer
\* callbacks runs.
C25_UnmountReleases ==
    /\ ~mounted => (\A t \in EventTypes : listeners[t] = {}) /\ timers = {}
    /\ ~last.pre.mounted => last.op \notin Callbacks

\* the extent of the divergence from C25: the listeners and the timeout are
\* released once the cleanups scheduled by the unmount have run; a callback
\* that runs before that changes no state and no value.
C25_UnmountReleasesFlushed ==
    /\ (~mounted /\ ~pendL /\ ~pendT) =>
          (\A t \in EventTypes : listeners[t] = {}) /\ timers = {}
    /\ (~last.pre.mounted /\ last.op \in Callbacks) =>
          /\ pendL /\ pendT
          /\ value = last.pre.value
          /\ dragging = last.pre.dragging
          /\ draggingIndex = last.pre.draggingIndex
          /\ draggingBy = last.pre.draggingBy
          /\ last.calls.setValue = 0

\* the last task was a start event accepted in Idle
StartedFromIdle ==
    /\ last.op \in Starts
    /\ last.calls.accepted
    /\ last.pre.draggingIndex = NULL
    /\ last.pre.draggingBy = "null"
    /\ ~last.pre.dragging

\* C26: a start event accepted in Idle selects the active thumb, sets the
\* modality to the event's channel, calls setValue once with the value of
\* the event's position, and leaves `dragging` false; the timer effect it
\* schedules sets exactly one timeout when it runs.
C26_AcceptedStart ==
    [][/\ StartedFromIdle' =>
             LET e == last'.e
                 index == last'.calls.index
                 v == getDragValue(DragOptions(e))
                 old == last'.pre.value
             IN /\ index \in ThumbIndex
                /\ draggingIndex' = index
                /\ draggingBy' = (IF isMouseEvent(e) THEN "mouse" ELSE "touch")
                /\ last'.calls.setValue = 1
                /\ ~range => value' = <<v>>
                /\ (range /\ index = 0) => value' = <<Min2(v, old[2]), old[2]>>
                /\ (range /\ index = 1) => value' = <<old[1], Max2(v, old[1])>>
                /\ ~dragging'
                /\ pendT'
                /\ timers' = {}
       /\ (StartedFromIdle /\ last'.op = "flush") =>
             /\ last'.calls.setTimeout = 1
             /\ Cardinality(timers') = 1
             /\ ~dragging']_vars

\* a touch on an idle slider has started a session, moved the value and
\* scheduled the timer effect
C26_Witness ==
    /\ StartedFromIdle
    /\ isTouchEvent(last.e)
    /\ draggingBy = "touch"
    /\ draggingIndex # NULL
    /\ value # last.pre.value
    /\ pendT

\* the last task was a move event heard with the controller idle
MovedInIdle ==
    /\ last.op \in Moves
    /\ last.pre.draggingIndex = NULL
    /\ last.pre.draggingBy = "null"
    /\ ~last.pre.dragging

\* the last task was an accepted move event of the modality of the session
\* that was active
MovedInSession ==
    /\ last.op \in Moves
    /\ last.calls.accepted
    /\ last.pre.draggingIndex # NULL
    /\ last.op = MoveType(last.pre.draggingBy)

\* the value after a drag of the thumb `index` to the position of `e`
\* from the value `old`
DraggedTo(old, index, e) ==
    LET v == getDragValue(DragOptions(e))
    IN IF ~range THEN <<v>>
       ELSE IF index = 0 THEN <<Min2(v, old[2]), old[2]>>
       ELSE <<old[1], Max2(v, old[1])>>

\* an accepted move event of the session calls setValue once, with the
\* value of the event's position for the active thumb, whether or not the
\* timer has fired, and leaves the session as it is
MovePushesValue ==
    MovedInSession =>
        /\ last.calls.setValue = 1
        /\ value = DraggedTo(last.pre.value, last.pre.draggingIndex, last.e)
        /\ draggingIndex = last.pre.draggingIndex
        /\ draggingBy = last.pre.draggingBy
        /\ dragging = last.pre.dragging

\* C27 as stated: an accepted move event of an active session pushes the
\* value of its position exactly once, before and after the timer has
\* fired, and a move event received while Idle changes nothing.
C27_MoveInSessionOnly ==
    /\ MovePushesValue
    /\ MovedInIdle =>
          /\ last.calls.setValue = 0
          /\ value = last.pre.value
          /\ Idle

\* the extent of the divergence from C27: the session half holds; a move
\* event changes the idle controller only through a listener that is still
\* bound because the cleanup of the listener effect has not run, and it
\* then starts a session of its channel on the thumb of the ended one.
C27_MoveInIdleOnlyStale ==
    /\ MovePushesValue
    /\ (MovedInIdle /\ last.calls.accepted) =>
          /\ ~last.pre.quiet
          /\ last.calls.setValue = 1
          /\ draggingIndex # NULL
          /\ last.op = MoveType(draggingBy)
          /\ value = DraggedTo(last.pre.value, draggingIndex, last.e)
    /\ (MovedInIdle /\ ~last.calls.accepted) =>
          /\ last.calls.setValue = 0
          /\ value = last.pre.value
          /\ Idle

\* C28: an accepted start or move event calls focus, on the selected thumb
\* and before the stored index is updated, exactly when the index it
\* computed differs from the stored one: once at the start of a session and
\* never on a move event of that session; no other task calls focus.
C28_FocusOnReselection ==
    LET c == last.calls
        reselect == c.accepted /\ c.index # last.pre.draggingIndex
    IN /\ c.focus = (IF last.op \in Starts \cup Moves /\ reselect THEN 1 ELSE 0)
       /\ c.focus = 1 =>
             /\ focus = c.index
             /\ c.focusSeen = <<last.pre.draggingIndex>>
             /\ draggingIndex = c.index
       /\ c.focus = 0 => (c.focusSeen = <<>> /\ focus = last.pre.focus)
       /\ StartedFromIdle => c.focus = 1
       /\ MovedInSession => c.focus = 0

\* a touch on the track of a range slider has focused the second thumb and
\* the move that followed it has left the focus alone
C28_Witness ==
    /\ range
    /\ MovedInSession
    /\ last.op = "touchmove"
    /\ last.calls.index = 1
    /\ last.calls.focus = 0
    /\ focus = 1
    /\ value # last.pre.value

DisabledInSession ==
    /\ last.op = "disabled"
    /\ disabled
    /\ last.pre.draggingBy # "null"

\* C30 as stated: disabling the controller during a session ends the
\* session: the active thumb and the modality are cleared, `dragging` is
\* false, no window listener is bound and no timer is outstanding.
C30_DisableEndsSession ==
    DisabledInSession =>
        /\ Idle
        /\ \A t \in EventTypes : listeners[t] = {}
        /\ timers = {}

\* C30, amended: disabling the controller during a session leaves the
\* active thumb, the modality and `dragging` as they were, cancels no timer
\* (the timer is outstanding unless it has fired) and leaves the listeners
\* bound, as the effects that were already scheduled leave them; only the
\* listener effect is scheduled again, and once it has run every move event
\* is rejected. A session of the disabled controller ends with an end event
\* only.
C30_DisableKeepsSession ==
    [][/\ DisabledInSession' =>
             /\ draggingIndex' = draggingIndex
             /\ draggingBy' = draggingBy
             /\ dragging' = dragging
             /\ timers' = Flush(Cur).timers
             /\ last'.calls.cancelled = Flush(Cur).calls.cancelled
             /\ ~pendT'
             /\ dragging' \/ timers' # {}
             /\ listeners' = Flush(Cur).listeners
             /\ listeners'[MoveType(draggingBy)] # {}
             /\ "stop" \in listeners'[EndType(draggingBy)]
             /\ pendL'
       /\ (last'.op \in Moves /\ disabled /\ ~pendL) => ~last'.calls.accepted
       /\ (disabled /\ draggingBy # "null" /\ draggingBy' = "null") =>
             last'.op \in Ends]_vars

\* the controller was disabled during a mouse session whose timer had
\* fired: the session is still active and its listeners are still bound
C30_Witness ==
    /\ DisabledInSession
    /\ draggingBy = "mouse"
    /\ draggingIndex # NULL
    /\ dragging
    /\ listeners["mousemove"] # {}

\* C31: only an end event takes the mounted controller from a session to
\* Idle; a timer expiry changes neither the active thumb nor the modality;
\* and once `dragging` is true the mounted controller keeps `dragging`, the
\* thumb, the modality and both window listeners of the modality through
\* every task that is not an end event, move events included.
C31_NoSessionTimeout ==
    [][/\ (draggingBy # "null" /\ draggingBy' = "null") => last'.op \in Ends
       /\ (draggingIndex # NULL /\ draggingIndex' = NULL) => last'.op \in Ends
       /\ last'.op \in {"timer", "staletimer"} =>
             /\ draggingIndex' = draggingIndex
             /\ draggingBy' = draggingBy
       /\ (dragging /\ mounted' /\ last'.op \notin Ends) =>
             /\ dragging'
             /\ draggingIndex' = draggingIndex
             /\ draggingIndex' # NULL
             /\ draggingBy' = draggingBy
             /\ draggingBy' # "null"
             /\ listeners'[MoveType(draggingBy)] # {}
             /\ "stop" \in listeners'[EndType(draggingBy)]]_vars

\* a move event was accepted in a touch session whose timer had fired, and
\* the session is still in Dragging
C31_Witness ==
    /\ MovedInSession
    /\ last.pre.dragging
    /\ dragging
    /\ draggingBy = "touch"
    /\ last.calls.setValue = 1
    /\ "stop" \in listeners["touchend"]

\* the acceptance rules a move event `e` fails in the current state
FailsRules(e) ==
    \/ e.mod # "none"
    \/ disabled
    \/ ~trackRef
    \/ ~thumb1Ref

SessionFrame == <<value, draggingIndex, draggingBy, dragging, listeners, timers>>

\* C32 as stated: a move event of an active session that fails the
\* acceptance rules (a modifier held, the controller disabled, the track or
\* the first thumb not registered) changes neither the value nor the active
\* thumb, the modality, `dragging`, the listeners or the timer.
C32_RejectedMoveNoChange ==
    [][(last'.op \in Moves /\ draggingBy # "null" /\ FailsRules(last'.e)) =>
          /\ ~last'.calls.accepted
          /\ last'.calls.setValue = 0
          /\ UNCHANGED SessionFrame]_vars

\* the extent of the divergence from C32: a move event that drag rejects
\* changes nothing, and a move event that fails the rules is accepted only
\* when the controller is disabled and the listener effect that re-binds
\* the move listener is still scheduled.
C32_RejectedMoveNoChangeFlushed ==
    [][/\ (last'.op \in Moves /\ ~last'.calls.accepted) =>
             /\ last'.calls.setValue = 0
             /\ UNCHANGED SessionFrame
             /\ UNCHANGED <<pendL, pendT, focus>>
       /\ (last'.op \in Moves /\ FailsRules(last'.e) /\ last'.calls.accepted) =>
             /\ disabled
             /\ pendL
             /\ last'.e.mod = "none"
             /\ trackRef /\ thumb1Ref]_vars

\* C33: after every task the active thumb index is null exactly when the
\* modality is null.
C33_ThumbIffModality == (draggingIndex = NULL) <=> (draggingBy = "null")

\* an end event has taken a session with a thumb and a modality to a state
\* with neither
C33_Witness ==
    /\ last.op \in Ends
    /\ last.pre.draggingIndex # NULL
    /\ last.pre.draggingBy # "null"
    /\ draggingIndex = NULL
    /\ draggingBy = "null"

\* C34: `dragging` is true only with an active thumb and a modality, and
\* it is false after construction and in every state with neither.
C34_DraggingOnlyInSession ==
    /\ dragging => (draggingIndex # NULL /\ draggingBy # "null")
    /\ last.op = "init" => ~dragging
    /\ (draggingIndex = NULL /\ draggingBy = "null") => ~dragging

\* the timeout has set `dragging` in a session, and an end event has reset
\* it together with the thumb and the modality
C34_Witness ==
    /\ last.op \in Ends
    /\ last.pre.dragging
    /\ ~dragging
    /\ draggingIndex = NULL

\* C35 as stated: with animationDuration unchanged, a timeout is set only
\* when the timer effect has set none since the session started, so once a
\* session, and none is cancelled before an end event or the unmount; a
\* move event of a session neither cancels nor sets a timeout, and the
\* timeout expiring in a session sets `dragging`.
C35_OneTimeoutPerSession ==
    [][/\ last'.calls.setTimeout > 0 =>
             /\ last'.calls.setTimeout = 1
             /\ tEff = 0
             /\ last'.calls.cancelled = 0
       /\ (last'.calls.cancelled > 0) => (last'.op \in Ends \/ ~mounted')
       /\ (last'.op \in Moves /\ draggingIndex # NULL) =>
             /\ last'.calls.setTimeout = 0
             /\ last'.calls.cancelled = 0
             /\ timers' = timers
       /\ (last'.op = "timer" /\ draggingIndex # NULL) => dragging']_vars

\* the timer effect is scheduled to run again in a session it has already
\* set a timeout for
TimerEffectDue == mounted /\ draggingIndex # NULL /\ pendT /\ tEff # 0

\* the extent of the divergence from C35: the timer effect becomes due
\* again within a session only by a move event heard in Idle, which starts
\* a session outside of a React event handler; in every other session one
\* timeout is set and none is cancelled before its end.
C35_OneTimeoutPerStartedSession ==
    [][/\ (~TimerEffectDue /\ TimerEffectDue') =>
             (MovedInIdle' /\ last'.calls.accepted)
       /\ (last'.calls.setTimeout > 0 /\ ~TimerEffectDue) =>
             /\ last'.calls.setTimeout = 1
             /\ tEff = 0
             /\ last'.calls.cancelled = 0
       /\ (last'.calls.cancelled > 0 /\ ~TimerEffectDue) =>
             (last'.op \in Ends \/ ~mounted')
       /\ last'.calls.setTimeout <= 1
       /\ last'.calls.cancelled <= 1
       /\ (last'.op \in Moves /\ draggingIndex # NULL) =>
             /\ last'.calls.setTimeout = 0
             /\ last'.calls.cancelled = 0
             /\ timers' = timers
       /\ (last'.op = "timer" /\ draggingIndex # NULL) => dragging']_vars

\* C36 as stated: in a session of the mounted controller every end event
\* of the session's modality, whatever its button and modifiers, returns
\* the controller to Idle, and no end event changes the value.
C36_AnyEndEnds ==
    /\ EndOfSession => Idle
    /\ last.op \in Ends \cup {Unheard(t) : t \in Ends} => value = last.pre.value

\* the extent of the divergence from C36: every end event that stop hears,
\* whatever its button and modifiers, returns the controller to Idle and
\* leaves the value; an end event of the session's modality goes unheard
\* only while the listener effect is still scheduled.
C36_AnyHeardEndEnds ==
    /\ last.op \in Ends => Idle
    /\ last.op \in Ends \cup {Unheard(t) : t \in Ends} => value = last.pre.value
    /\ (EndOfSession /\ last.op \notin Ends) => (pendL /\ ~Idle)

\* C37: every mousedown, touchstart and keydown delivered to the handlers
\* of the hook calls the caller's handler of that event exactly once,
\* whether the event is then accepted, rejected, or a start event that
\* arrives during a session; no other task calls a caller's handler.
C37_CallerHandlerOnce ==
    last.calls.handler = (IF last.op \in Starts \cup {"keydown"} THEN 1 ELSE 0)

\* a start event has arrived during a session: drag was not called, the
\* caller's handler was
C37_Witness ==
    /\ last.op \in Starts
    /\ last.pre.draggingBy # "null"
    /\ ~last.calls.accepted
    /\ last.calls.handler = 1
    /\ last.calls.setValue = 0

\* the last task was an input to the disabled controller
DisabledInput ==
    /\ last.op \in Starts \cup Moves \cup {"keydown"}
    /\ disabled

\* C38 as stated: a start event, a move event or a key press of the
\* disabled controller calls neither setValue nor a stepping primitive and
\* leaves the value.
C38_DisabledNoValueChange ==
    DisabledInput =>
        /\ last.calls.setValue = 0
        /\ last.calls.steps = 0
        /\ value = last.pre.value

\* the extent of the divergence from C38: the start events and key presses
\* of the disabled controller change nothing, and so do its move events
\* once the listener effect scheduled by the disabling has run; until then
\* a move event calls setValue once and no stepping primitive.
C38_DisabledNoValueChangeFlushed ==
    /\ (DisabledInput /\ (last.op \notin Moves \/ last.pre.quiet)) =>
          /\ last.calls.setValue = 0
          /\ last.calls.steps = 0
          /\ ~last.calls.accepted
          /\ value = last.pre.value
    /\ DisabledInput =>
          /\ last.calls.steps = 0
          /\ last.calls.setValue <= 1
          /\ last.calls.setValue = 1 => last.pre.draggingBy # "null"

====
